---- MODULE Spec2Model ----
(***************************************************************************)
(* SvhnDataset (uncertainty_baselines/datasets/svhn.py): the adapter that  *)
(* records split sizes from the catalog's metadata, resolves a Split to a  *)
(* range of the catalog's partitions, and builds the per-example parser.   *)
(*                                                                         *)
(* A record of the catalog is identified by its partition and its absolute *)
(* offset in it.  The tf.data.Dataset a load returns is lazy: it is        *)
(* modelled by the range of offsets it will yield, in catalog order.       *)
(* Tensor arithmetic is modelled in exact rationals <<numerator,           *)
(* denominator>>; float32 rounding is not modelled.                        *)
(***************************************************************************)
EXTENDS Integers, Sequences, FiniteSets, TLC

VARIABLES catalog, args, raw, constructed, self, metaQueries, dataLoads,
          reads, parser, parsed, touched, workers

vars == <<catalog, args, raw, constructed, self, metaQueries, dataLoads,
          reads, parser, parsed, touched, workers>>

(* ------------------------------ bounds -------------------------------- *)

MaxExtra == 2
MaxBelow == 1
MaxTest == 2
MaxLoads == 3
MaxParallel == 2

(* ----------------------------- constants ------------------------------ *)

NumTrainExamples == 50000

DatasetName == "svhn_cropped"

(* Optional[...] values: None is the empty set, a value v is {v}. *)
None == {}
Some(v) == {v}
Get(opt) == CHOOSE v \in opt : TRUE

(* --------------------------- split values ----------------------------- *)

(* base.Split members, and other Python values a caller can pass.  An enum *)
(* member is equal only to itself: the string 'TRAIN' is not Split.TRAIN.  *)
TRAIN == [type |-> "Split", value |-> "TRAIN"]
VAL == [type |-> "Split", value |-> "VAL"]
TEST == [type |-> "Split", value |-> "TEST"]

Splits == {TRAIN, VAL, TEST}

OtherValues == {[type |-> "str", value |-> "TRAIN"],
                [type |-> "NoneType", value |-> "None"]}

SplitValues == Splits \cup OtherValues

(* '{}'.format(v): str(v); an enum member prints as ClassName.MEMBER. *)
Format(v) == IF v.type = "Split" THEN "Split." \o v.value ELSE v.value

(* --------------------------- the catalog ------------------------------ *)

(* info.splits[p].num_examples *)
NumExamples(cat, p) == cat[p]

(* tfds.core.ReadInstruction(split_name, from_=, to=, unit='abs') *)
ReadInstruction(split_name, from_, to) ==
  [split |-> split_name, from_ |-> from_, to |-> to, unit |-> "abs"]

(* A boundary of an absolute read instruction against a partition of n    *)
(* records: a negative boundary counts from the end, as in a Python slice. *)
AbsBoundary(b, n) == IF b < 0 THEN n + b ELSE b

(* tfds.load(name, split=instr): the lazy dataset over the resolved range. *)
Load(cat, instr) ==
  LET n == NumExamples(cat, instr.split)
      f == IF instr.from_ = None THEN 0 ELSE Get(instr.from_)
      t == IF instr.to = None THEN n ELSE Get(instr.to)
  IN [kind |-> "dataset", part |-> instr.split,
      from |-> AbsBoundary(f, n), to |-> AbsBoundary(t, n)]

NoRead == [kind |-> "none"]

ValueError(msg) == [kind |-> "ValueError", msg |-> msg]

IsDataset(r) == r.kind = "dataset"

(* Number of records a dataset yields, and the record at position i. *)
Size(ds) == IF ds.to > ds.from THEN ds.to - ds.from ELSE 0

ElemAt(ds, i) == [part |-> ds.part, offset |-> ds.from + i]

(* ------------------------------ __init__ ------------------------------ *)

Blank ==
  [name |-> "", num_train_examples |-> 0, num_validation_examples |-> 0,
   num_test_examples |-> 0, batch_size |-> 0, eval_batch_size |-> 0,
   shuffle_buffer_size |-> None, num_parallel_parser_calls |-> 0,
   data_dir |-> None, normalize_by_cifar |-> FALSE]

(* base.BaseDataset.__init__: records its keyword arguments. *)
BaseDatasetInit(obj, name, num_train, num_validation, num_test, a) ==
  [obj EXCEPT !.name = name,
              !.num_train_examples = num_train,
              !.num_validation_examples = num_validation,
              !.num_test_examples = num_test,
              !.batch_size = a.batch_size,
              !.eval_batch_size = a.eval_batch_size,
              !.shuffle_buffer_size = a.shuffle_buffer_size,
              !.num_parallel_parser_calls = a.num_parallel_parser_calls,
              !.data_dir = a.data_dir]

NumValidationExamples(info) == NumExamples(info, "train") - NumTrainExamples

SvhnInit(a, info) ==
  BaseDatasetInit([Blank EXCEPT !.normalize_by_cifar = a.normalize_by_cifar],
                  DatasetName,
                  NumTrainExamples,
                  NumValidationExamples(info),
                  NumExamples(info, "test"),
                  a)

Construct ==
  /\ ~constructed
  /\ constructed' = TRUE
  /\ metaQueries' = metaQueries + 1
  /\ self' = SvhnInit(args, catalog)
  /\ UNCHANGED <<catalog, args, raw, dataLoads, reads, parser, parsed, touched,
                 workers>>

(* --------------------------- _read_examples --------------------------- *)

(* a read that stops one record early *)
TrainSplitOneShort(obj) ==
  ReadInstruction("train", None, Some(-obj.num_validation_examples - 1))

TrainSplit(obj) ==
  ReadInstruction("train", None, Some(-obj.num_validation_examples))

ValSplit(obj) ==
  ReadInstruction("train", Some(-obj.num_validation_examples), None)

(* a test read that names the train partition *)
TestSplitFromTrain == ReadInstruction("train", None, None)

TestSplit == ReadInstruction("test", None, None)

(* a message whose placeholder is never filled in *)
InvalidSplitMessageUnformatted(split) ==
  "Invalid dataset split in _read_examples: {}"

InvalidSplitMessage(split) ==
  "Invalid dataset split in _read_examples: " \o Format(split)

ReadResult(cat, obj, split) ==
  IF split = TRAIN THEN Load(cat, TrainSplit(obj))
  ELSE IF split = VAL THEN Load(cat, ValSplit(obj))
  ELSE IF split = TEST THEN Load(cat, TestSplit)
  ELSE ValueError(InvalidSplitMessage(split))

LoadsIssued(split) == IF split \in {TRAIN, VAL, TEST} THEN 1 ELSE 0

(* a read that asks the catalog for its metadata again *)
read_examples_requery(split) ==
  /\ constructed
  /\ dataLoads + LoadsIssued(split) <= MaxLoads
  /\ reads' = [reads EXCEPT ![split] = ReadResult(catalog, self, split)]
  /\ dataLoads' = dataLoads + LoadsIssued(split)
  /\ metaQueries' = metaQueries + 1
  /\ UNCHANGED <<catalog, args, raw, constructed, self, parser, parsed,
                 touched, workers>>

read_examples(split) ==
  /\ constructed
  /\ dataLoads + LoadsIssued(split) <= MaxLoads
  /\ reads' = [reads EXCEPT ![split] = ReadResult(catalog, self, split)]
  /\ dataLoads' = dataLoads + LoadsIssued(split)
  /\ UNCHANGED <<catalog, args, raw, constructed, self, metaQueries, parser,
                 parsed, touched, workers>>

ReadExamples == \E split \in SplitValues : read_examples(split)

(* ----------------------------- tensors -------------------------------- *)

(* Exact rationals <<n, d>> with d > 0, in lowest terms. *)
RECURSIVE GCD(_, _)
GCD(a, b) == IF b = 0 THEN a ELSE GCD(b, a % b)

Abs(x) == IF x < 0 THEN -x ELSE x

Rat(n, d) ==
  LET g == GCD(Abs(n), Abs(d))
      sgn == IF d < 0 THEN -1 ELSE 1
  IN <<(sgn * n) \div g, (sgn * d) \div g>>

RatSub(a, b) == Rat(a[1] * b[2] - b[1] * a[2], a[2] * b[2])

RatDiv(a, b) ==
  LET g1 == GCD(Abs(a[1]), Abs(b[1]))
      g2 == GCD(a[2], b[2])
  IN Rat((a[1] \div g1) * (b[2] \div g2), (a[2] \div g2) * (b[1] \div g1))

RatLeq(a, b) == a[1] * b[2] <= b[1] * a[2]

Channels == 1..3

(* A tensor is its dtype and, for an image, one pixel's three channel     *)
(* values; every operation of the parser is elementwise over pixels.      *)
Tensor(dtype, val) == [dtype |-> dtype, val |-> val]

NoTensor == Tensor("none", <<>>)

(* image.dtype.max of an 8-bit image *)
Uint8Max == 255

(* a conversion that divides by the number of levels, 256 *)
ConvertImageDtypeBy256(image) ==
  IF image.dtype = "float32" THEN image
  ELSE Tensor("float32",
              [c \in Channels |-> RatDiv(image.val[c], <<Uint8Max + 1, 1>>)])

(* tf.image.convert_image_dtype(image, tf.float32): a float32 image is    *)
(* returned as it is, an integer image is cast and scaled by 1/dtype.max. *)
ConvertImageDtype(image) ==
  IF image.dtype = "float32" THEN image
  ELSE Tensor("float32",
              [c \in Channels |-> RatDiv(image.val[c], <<Uint8Max, 1>>)])

(* tf.cast(label, tf.int32): the class ids of the catalog fit 32 bits, so *)
(* the cast keeps the value and changes the dtype.                        *)
CastInt32(label) == Tensor("int32", label.val)

Mean == <<Rat(4914, 10000), Rat(4822, 10000), Rat(4465, 10000)>>

Std == <<Rat(2023, 10000), Rat(1994, 10000), Rat(2010, 10000)>>

(* a normalization whose std vector is shifted by one channel *)
NormalizeMisaligned(image) ==
  Tensor("float32",
         [c \in Channels |->
            RatDiv(RatSub(image.val[c], Mean[c]), Std[(c % 3) + 1])])

(* (image - mean) / std, broadcast over the channel axis *)
Normalize(image) ==
  Tensor("float32",
         [c \in Channels |-> RatDiv(RatSub(image.val[c], Mean[c]), Std[c])])

ParsedExample(image, label) == [features |-> image, labels |-> label]

(* _example_parser(example), as one call *)
ExampleParser(obj, example) ==
  LET image == ConvertImageDtype(example.image)
      label == CastInt32(example.label)
  IN IF obj.normalize_by_cifar
       THEN ParsedExample(Normalize(image), label)
       ELSE ParsedExample(image, label)

(* What a call of the parser touches besides its argument and its locals. *)
Access(loc, mode) == [loc |-> loc, mode |-> mode]

ParserAccesses == {Access("self._normalize_by_cifar", "read")}

(* --------------------- _create_process_example_fn --------------------- *)

(* The closure captures self; the split argument is deleted.  for_split   *)
(* remembers the argument of the call that made the closure.              *)
create_process_example_fn(split) ==
  /\ constructed
  /\ parser' = Some([for_split |-> split])
  /\ UNCHANGED <<catalog, args, raw, constructed, self, metaQueries, dataLoads,
                 reads, parsed, touched, workers>>

CreateProcessExampleFn == \E split \in Splits : create_process_example_fn(split)

example_parser(example) ==
  /\ parser # None
  /\ parsed' = Some(ExampleParser(self, example))
  /\ touched' = touched \cup ParserAccesses
  /\ UNCHANGED <<catalog, args, raw, constructed, self, metaQueries, dataLoads,
                 reads, parser, workers>>

(* ------------------------------ examples ------------------------------ *)

Uint8Image(r, g, b) == Tensor("uint8", <<Rat(r, 1), Rat(g, 1), Rat(b, 1)>>)

FloatImage(r, g, b) == Tensor("float32", <<r, g, b>>)

Example(image, label) == [image |-> image, label |-> Tensor("int64", label)]

Labels == {0, 9}

(* Every 8-bit value occurs in every channel. *)
Uint8Examples ==
  {Example(Uint8Image(v, (v + 85) % 256, (v + 170) % 256), l) :
     v \in 0..Uint8Max, l \in Labels}

(* Images that are already float32: at the per-channel mean, and mid-grey. *)
FloatExamples ==
  {Example(FloatImage(Mean[1], Mean[2], Mean[3]), l) : l \in Labels}
  \cup {Example(FloatImage(Rat(1, 2), Rat(1, 2), Rat(1, 2)), 0)}

AllExamples == Uint8Examples \cup FloatExamples

SampleExamples ==
  {Example(Uint8Image(0, 128, 255), 9),
   Example(FloatImage(Mean[1], Mean[2], Mean[3]), 0)}

(* The parser applied to the raw example at hand. *)
ParseRaw == example_parser(raw)

(* ------------------- the parser under tf.data's map ------------------- *)

(* Dataset.map(parser, num_parallel_calls=n) runs up to n calls of the    *)
(* parser at once; a call is modelled statement by statement.             *)
Idle == [pc |-> "idle", example |-> Example(NoTensor, 0), image |-> NoTensor,
         label |-> NoTensor, out |-> None]

Start(w, example) ==
  /\ parser # None
  /\ w <= self.num_parallel_parser_calls
  /\ workers[w].pc \in {"idle", "done"}
  /\ workers' = [workers EXCEPT ![w] = [Idle EXCEPT !.pc = "l95",
                                                     !.example = example]]
  /\ UNCHANGED <<catalog, args, raw, constructed, self, metaQueries, dataLoads,
                 reads, parser, parsed, touched>>

L95(w) ==
  /\ workers[w].pc = "l95"
  /\ workers' = [workers EXCEPT ![w].image = workers[w].example.image,
                                ![w].pc = "l96"]
  /\ UNCHANGED <<catalog, args, raw, constructed, self, metaQueries, dataLoads,
                 reads, parser, parsed, touched>>

L96(w) ==
  /\ workers[w].pc = "l96"
  /\ workers' = [workers EXCEPT ![w].image = ConvertImageDtype(workers[w].image),
                                ![w].pc = "l97"]
  /\ UNCHANGED <<catalog, args, raw, constructed, self, metaQueries, dataLoads,
                 reads, parser, parsed, touched>>

L97(w) ==
  /\ workers[w].pc = "l97"
  /\ workers' = [workers EXCEPT ![w].label = CastInt32(workers[w].example.label),
                                ![w].pc = "l98"]
  /\ UNCHANGED <<catalog, args, raw, constructed, self, metaQueries, dataLoads,
                 reads, parser, parsed, touched>>

L98(w) ==
  /\ workers[w].pc = "l98"
  /\ touched' = touched \cup {Access("self._normalize_by_cifar", "read")}
  /\ workers' = [workers EXCEPT ![w].pc = IF self.normalize_by_cifar
                                             THEN "l99" ELSE "l102"]
  /\ UNCHANGED <<catalog, args, raw, constructed, self, metaQueries, dataLoads,
                 reads, parser, parsed>>

(* a normalization step that also clears the adapter's flag *)
L99ClearsFlag(w) ==
  /\ workers[w].pc = "l99"
  /\ workers' = [workers EXCEPT ![w].image = Normalize(workers[w].image),
                                ![w].pc = "l102"]
  /\ self' = [self EXCEPT !.normalize_by_cifar = FALSE]
  /\ touched' = touched \cup {Access("self._normalize_by_cifar", "write")}
  /\ UNCHANGED <<catalog, args, raw, constructed, metaQueries, dataLoads,
                 reads, parser, parsed>>

L99(w) ==
  /\ workers[w].pc = "l99"
  /\ workers' = [workers EXCEPT ![w].image = Normalize(workers[w].image),
                                ![w].pc = "l102"]
  /\ UNCHANGED <<catalog, args, raw, constructed, self, metaQueries, dataLoads,
                 reads, parser, parsed, touched>>

L102(w) ==
  /\ workers[w].pc = "l102"
  /\ workers' = [workers EXCEPT ![w].out =
                                  Some(ParsedExample(workers[w].image,
                                                     workers[w].label)),
                                ![w].pc = "done"]
  /\ UNCHANGED <<catalog, args, raw, constructed, self, metaQueries, dataLoads,
                 reads, parser, parsed, touched>>

Workers == 1..MaxParallel

ParStart == \E w \in Workers, example \in SampleExamples : Start(w, example)

ParStep ==
  \E w \in Workers : L95(w) \/ L96(w) \/ L97(w) \/ L98(w) \/ L99(w) \/ L102(w)

(* -------------------------- specifications ---------------------------- *)

Catalogs ==
  [train : (NumTrainExamples - MaxBelow)..(NumTrainExamples + MaxExtra),
   test : 1..MaxTest]

Args ==
  [batch_size : {1}, eval_batch_size : {1},
   shuffle_buffer_size : {None, Some(1)},
   num_parallel_parser_calls : 1..MaxParallel,
   data_dir : {None},
   normalize_by_cifar : BOOLEAN]

InitWith(catalogs, examples) ==
  /\ catalog \in catalogs
  /\ args \in Args
  /\ raw \in examples
  /\ constructed = FALSE
  /\ self = Blank
  /\ metaQueries = 0
  /\ dataLoads = 0
  /\ reads = [v \in SplitValues |-> NoRead]
  /\ parser = None
  /\ parsed = None
  /\ touched = {}
  /\ workers = [w \in Workers |-> Idle]

(* The adapter: construction, reads, and the parser on sample examples. *)
Init == InitWith(Catalogs, SampleExamples)

Next == Construct \/ ReadExamples \/ CreateProcessExampleFn \/ ParseRaw

Spec == Init /\ [][Next]_vars

(* Construction and reads only, with the constructor's other arguments fixed. *)
InitRead ==
  /\ Init
  /\ raw = CHOOSE e \in SampleExamples : TRUE
  /\ args.shuffle_buffer_size = None
  /\ args.num_parallel_parser_calls = 1

NextRead == Construct \/ ReadExamples

SpecRead == InitRead /\ [][NextRead]_vars

(* The parser on every 8-bit pixel value, over one catalog. *)
OneCatalog == {[train |-> NumTrainExamples + MaxExtra, test |-> MaxTest]}

InitParser == InitWith(OneCatalog, AllExamples)

NextParser == Construct \/ CreateProcessExampleFn \/ ParseRaw

SpecParser == InitParser /\ [][NextParser]_vars

(* Concurrent calls of the parser. *)
NextPar == Construct \/ CreateProcessExampleFn \/ ParStart \/ ParStep

InitPar == InitWith(OneCatalog, {CHOOSE e \in SampleExamples : TRUE})

SpecPar == InitPar /\ [][NextPar]_vars

(* ------------------------- claims: the splits ------------------------- *)

BothRead == IsDataset(reads[TRAIN]) /\ IsDataset(reads[VAL])

(* TRAIN's records followed by VALIDATION's records. *)
ConcatSize(a, b) == Size(a) + Size(b)

ConcatAt(a, b, i) == IF i < Size(a) THEN ElemAt(a, i) ELSE ElemAt(b, i - Size(a))

(* C1: for a train count T >= 50000, the records of read_examples(TRAIN)  *)
(* followed by those of read_examples(VALIDATION) are the catalog's train *)
(* partition in its order: position i of the concatenation is the train   *)
(* record at offset i, for every i in 0..T-1, and there are T positions.  *)
C1_TrainValPartition ==
  (catalog.train >= NumTrainExamples /\ BothRead) =>
    /\ ConcatSize(reads[TRAIN], reads[VAL]) = catalog.train
    /\ \A i \in 0..(catalog.train - 1) :
         ConcatAt(reads[TRAIN], reads[VAL], i) = [part |-> "train", offset |-> i]

C1_Witness ==
  /\ BothRead
  /\ catalog.train > NumTrainExamples
  /\ Size(reads[TRAIN]) > 0
  /\ Size(reads[VAL]) > 0

(* C2: for a train count T >= 50000 and a test count S, the recorded      *)
(* validation count is T - 50000, TRAIN yields 50000 records, VALIDATION  *)
(* yields T - 50000 records and TEST yields S records.                    *)
C2_YieldedCounts ==
  (constructed /\ catalog.train >= NumTrainExamples) =>
    /\ self.num_validation_examples = catalog.train - NumTrainExamples
    /\ IsDataset(reads[TRAIN]) => Size(reads[TRAIN]) = NumTrainExamples
    /\ IsDataset(reads[VAL]) => Size(reads[VAL]) = catalog.train - NumTrainExamples
    /\ IsDataset(reads[TEST]) => Size(reads[TEST]) = catalog.test

(* C3: read_examples(TRAIN) is the train partition at offsets             *)
(* [0, train_total - validation_count), for every validation_count >= 0.  *)
C3_TrainRange ==
  (constructed /\ self.num_validation_examples >= 0 /\ IsDataset(reads[TRAIN])) =>
    reads[TRAIN] = [kind |-> "dataset", part |-> "train", from |-> 0,
                    to |-> catalog.train - self.num_validation_examples]

(* C4: read_examples(VALIDATION) is the train partition at offsets        *)
(* [train_total - validation_count, train_total), for every               *)
(* validation_count >= 0.                                                 *)
C4_ValRange ==
  (constructed /\ self.num_validation_examples >= 0 /\ IsDataset(reads[VAL])) =>
    reads[VAL] = [kind |-> "dataset", part |-> "train",
                  from |-> catalog.train - self.num_validation_examples,
                  to |-> catalog.train]

Contains(m, s) ==
  \E i \in 1..(Len(m) - Len(s) + 1) : SubSeq(m, i, i + Len(s) - 1) = s

(* C6: a read_examples call with a value outside {TRAIN, VALIDATION,      *)
(* TEST} gives a ValueError whose message contains the value as printed;  *)
(* the step issues no catalog load, returns no dataset and leaves the     *)
(* adapter's recorded fields and the other splits' results as they were.  *)
C6_InvalidSplit ==
  [][\A v \in SplitValues \ Splits :
       reads'[v] # reads[v] =>
         /\ reads'[v].kind = "ValueError"
         /\ Contains(reads'[v].msg, Format(v))
         /\ dataLoads' = dataLoads
         /\ metaQueries' = metaQueries
         /\ self' = self
         /\ \A s \in SplitValues \ {v} : reads'[s] = reads[s]]_vars

C6_Witness ==
  /\ \A v \in SplitValues \ Splits : reads[v].kind = "ValueError"
  /\ IsDataset(reads[TRAIN])

(* ------------------------- claims: the parser ------------------------- *)

(* C7, as amended: a call of the parser writes nothing outside its locals *)
(* and reads, besides its argument, only the adapter's normalization      *)
(* flag; under every interleaving of up to num_parallel_parser_calls      *)
(* calls, the output of each finished call is the output of the parser    *)
(* applied to that example alone, and two calls on the same example give  *)
(* the same label.                                                        *)
C7_ParallelParser ==
  /\ \A a \in touched : a = Access("self._normalize_by_cifar", "read")
  /\ \A w \in Workers :
       workers[w].pc = "done" =>
         Get(workers[w].out) = ExampleParser(self, workers[w].example)
  /\ \A w1, w2 \in Workers :
       (/\ workers[w1].pc = "done"
        /\ workers[w2].pc = "done"
        /\ workers[w1].example = workers[w2].example) =>
         Get(workers[w1].out).labels = Get(workers[w2].out).labels

(* C7 as stated: the parser reads and writes no state outside its input   *)
(* example, and each finished call's output is that of the parser applied *)
(* to the example alone.                                                  *)
C7_AsStated ==
  /\ touched = {}
  /\ \A w \in Workers :
       workers[w].pc = "done" =>
         Get(workers[w].out) = ExampleParser(self, workers[w].example)

C7_Witness ==
  /\ self.normalize_by_cifar
  /\ self.num_parallel_parser_calls >= 2
  /\ workers[1].pc = "done"
  /\ workers[2].pc = "done"
  /\ workers[1].example # workers[2].example

PixelIn(image, c) == image.val[c][1]

(* C8: with normalize_by_cifar off, the parser maps an 8-bit pixel value  *)
(* v to v/255 in every channel: 0 to 0, 255 to 1, and every feature value *)
(* lies in [0, 1], whatever split the parser was made for.                *)
C8_UnitScaling ==
  (parsed # None /\ ~self.normalize_by_cifar /\ raw.image.dtype = "uint8") =>
    /\ Get(parsed).features.dtype = "float32"
    /\ \A c \in Channels :
         LET v == PixelIn(raw.image, c)
             f == Get(parsed).features.val[c]
         IN /\ f[2] > 0
            /\ f[1] * 255 = v * f[2]
            /\ v = 0 => f = <<0, 1>>
            /\ v = 255 => f = <<1, 1>>
            /\ 0 <= f[1] /\ f[1] <= f[2]

C8_Witness ==
  /\ parsed # None
  /\ ~self.normalize_by_cifar
  /\ parser = Some([for_split |-> TEST])
  /\ raw.image.dtype = "uint8"
  /\ PixelIn(raw.image, 1) = 255
  /\ Get(parsed).features.val[1] = <<1, 1>>

(* mean and std of the claim, in units of 1/10000 *)
CifarMean == <<4914, 4822, 4465>>

CifarStd == <<2023, 1994, 2010>>

(* The value of channel c after the [0, 1] scaling. *)
Scaled(image, c) ==
  IF image.dtype = "uint8" THEN Rat(PixelIn(image, c), 255) ELSE image.val[c]

====
